---- MODULE Spec2Model ----
(***************************************************************************)
(* A model of se/typography.py: the hyphenation scan (hyphenate), the      *)
(* quoting style classifier (guess_quoting_style) and the quote conversion *)
(* pipeline (convert_british_to_american).                                 *)
(*                                                                         *)
(* Text is a sequence of characters.  An ASCII character is the string of  *)
(* that one character; the other code points carry their names.            *)
(***************************************************************************)
EXTENDS Integers, Sequences, FiniteSets, TLC

VARIABLES
    xhtml,             \* hyphenate: the document passed in
    language,          \* hyphenate: the language argument, then the resolved language
    ignore_h_tags,     \* hyphenate: the ignore_h_tags argument
    text,              \* hyphenate: str(soup.body)
    result,            \* hyphenate: the text being spliced
    word,              \* hyphenate: the word being read
    in_tag,
    tag_name,
    reading_tag_name,
    in_h_tag,
    pos,               \* hyphenate: 1 + the index in result of the character scanned
    idx,               \* hyphenate: the number of characters of text already scanned
    pc,                \* where the call is: "start", "scan", "done", "raised"
    returned,          \* the value returned, or the exception raised
    passed,            \* lengths of the words handed to the syllable splitter
    kept,              \* lengths of the words finalized without asking the splitter
    call,              \* the function called
    html_lang,         \* the xml:lang or lang attribute of the root element, or "None"
    runs               \* convert_british_to_american: the conversions done

vars == <<xhtml, language, ignore_h_tags, text, result, word, in_tag, tag_name,
          reading_tag_name, in_h_tag, pos, idx, pc, returned, passed, kept, call,
          html_lang, runs>>

\* the locals of hyphenate
scan_vars == <<language, ignore_h_tags, text, result, word, in_tag, tag_name,
               reading_tag_name, in_h_tag, pos, idx, passed, kept, html_lang>>

-----------------------------------------------------------------------------
(* Characters and strings *)

SHY == "SHY"            \* U+00AD, the soft hyphen
None == <<"N", "o", "n", "e">>          \* str(None)

Alnum == {"a", "b", "c", "d", "e", "h", "m", "n", "o", "p", "y", "N", "1", "6", "7"}

\* str.isalnum on one character
IsAlnum(c) == c \in Alnum

RECURSIVE Concat(_)
Concat(ss) == IF ss = <<>> THEN <<>> ELSE Head(ss) \o Concat(Tail(ss))

Repeat(c, n) == [k \in 1..n |-> c]

\* s[:k] and s[k:] of a Python string, k counted from 0, a negative k from the end
PyIndex(s, k) ==
    IF k < 0 THEN (IF Len(s) + k < 0 THEN 0 ELSE Len(s) + k)
    ELSE (IF k > Len(s) THEN Len(s) ELSE k)
SliceTo(s, k) == SubSeq(s, 1, PyIndex(s, k))
SliceFrom(s, k) == SubSeq(s, PyIndex(s, k) + 1, Len(s))

\* pat occurs in s at the (1-based) position p
OccursAt(s, pat, p) ==
    /\ p >= 1
    /\ p + Len(pat) - 1 <= Len(s)
    /\ \A k \in 1..Len(pat) : s[p + k - 1] = pat[k]

Occurrences(s, pat) == {p \in 1..Len(s) : OccursAt(s, pat, p)}

Min(S) == CHOOSE x \in S : \A y \in S : x <= y
Max(S) == CHOOSE x \in S : \A y \in S : x >= y

\* str.replace(old, new): every occurrence, left to right, not overlapping
RECURSIVE ReplaceFrom(_, _, _, _)
ReplaceFrom(s, old, new, p) ==
    IF p > Len(s) THEN <<>>
    ELSE IF OccursAt(s, old, p) THEN new \o ReplaceFrom(s, old, new, p + Len(old))
    ELSE <<s[p]>> \o ReplaceFrom(s, old, new, p + 1)
Replace(s, old, new) == ReplaceFrom(s, old, new, 1)

-----------------------------------------------------------------------------
(* The document and its body *)

BodyOpen == <<"<", "b", "o", "d", "y">>
BodyClose == <<"<", "/", "b", "o", "d", "y", ">">>
HeadClose == <<"<", "/", "h", "e", "a", "d", ">">>
HeadRegion == <<"<", "h", "e", "a", "d", ">">> \o HeadClose

\* the matches of <body.+</body> (DOTALL, greedy): from the first "<body" that
\* has a "</body>" at least one character after it, to the last "</body>"
BodyStarts(s) ==
    {p \in Occurrences(s, BodyOpen) :
        \E q \in Occurrences(s, BodyClose) : q >= p + Len(BodyOpen) + 1}
HasBody(s) == BodyStarts(s) # {}
BodyFirst(s) == Min(BodyStarts(s))
BodyLast(s) == Max(Occurrences(s, BodyClose)) + Len(BodyClose) - 1

\* str(soup.body): the serialised body element, "None" when the document has none
BodyText(s) == IF HasBody(s) THEN SubSeq(s, BodyFirst(s), BodyLast(s)) ELSE None

\* regex.sub(r"<body.+<\/body>", "", xhtml, flags=regex.DOTALL)
RemoveBody(s) ==
    IF HasBody(s)
    THEN SubSeq(s, 1, BodyFirst(s) - 1) \o SubSeq(s, BodyLast(s) + 1, Len(s))
    ELSE s

\* xhtml.replace("</head>", "</head>\n\t" + result)
InjectAfterHead(s, r) == Replace(s, HeadClose, HeadClose \o <<"\n", "\t">> \o r)

-----------------------------------------------------------------------------
(* The syllable splitter *)

MaxWordLen == 100

\* what Hyphenator.syllables may return for a word: no syllables, the word as
\* its only syllable, or two or three pieces that concatenate to the word
Syllables(w) ==
    {<<>>, <<w>>}
    \cup (IF Len(w) >= 2 THEN {<<SubSeq(w, 1, 1), SubSeq(w, 2, Len(w))>>} ELSE {})
    \cup (IF Len(w) >= 3
          THEN {<<SubSeq(w, 1, 1), SubSeq(w, 2, Len(w) - 1), SubSeq(w, Len(w), Len(w))>>}
          ELSE {})

\* "­".join(syllables)
RECURSIVE Join(_)
Join(syl) ==
    IF syl = <<>> THEN <<>>
    ELSE IF Len(syl) = 1 THEN Head(syl)
    ELSE Head(syl) \o <<SHY>> \o Join(Tail(syl))

\* the ceiling taken one too high
EligibleUpTo(w) == Len(w) <= MaxWordLen

\* len(word) < 100
Eligible(w) == Len(w) < MaxWordLen

\* new_word: the word itself, or its syllables joined when the splitter is
\* asked and returns some
NewWords(w) ==
    IF Eligible(w)
    THEN {IF syl = <<>> THEN w ELSE Join(syl) : syl \in Syllables(w)}
    ELSE {w}

-----------------------------------------------------------------------------
(* The scan of hyphenate *)

HDigits == {"1", "2", "3", "4", "5", "6"}

\* regex ^h[1-6]$ and ^/h[1-6]$ matched against tag_name ($ also matches
\* before a final newline)
EndsHere(t, n) == Len(t) = n \/ (Len(t) = n + 1 /\ t[n + 1] = "\n")
h_opening_tag_pattern(t) ==
    /\ Len(t) >= 2 /\ t[1] = "h" /\ t[2] \in HDigits /\ EndsHere(t, 2)
h_closing_tag_pattern(t) ==
    /\ Len(t) >= 3 /\ t[1] = "/" /\ t[2] = "h" /\ t[3] \in HDigits /\ EndsHere(t, 3)

\* result[:pos - len(word) - 1] + new_word + char + result[pos:]
Splice(r, p, w, new_word, char) ==
    SliceTo(r, p - Len(w) - 1) \o new_word \o <<char>> \o SliceFrom(r, p)

\* pos = pos + len(new_word) - len(word)
AdvancePos(p, w, new_word) == p + Len(new_word) - Len(w)

\* the chain without its tests of in_tag: words are split at whatever is not
\* alphanumeric, inside tags too
BranchIgnoringTags(char) ==
    IF char = "<" THEN "open"
    ELSE IF in_tag /\ char = ">" THEN "close"
    ELSE IF IsAlnum(char) THEN "alnum"
    ELSE "boundary"

\* which branch of the if/elif chain the character takes
Branch(char) ==
    IF char = "<" THEN "open"
    ELSE IF in_tag /\ char = ">" THEN "close"
    ELSE IF in_tag /\ char = " " THEN "space"
    ELSE IF in_tag /\ reading_tag_name THEN "name"
    ELSE IF ~in_tag /\ IsAlnum(char) THEN "alnum"
    ELSE IF ~in_tag THEN "boundary"
    ELSE "none"

\* in_h_tag after the two pattern tests
HTagAfter(reading, name, h) ==
    LET h1 == IF ~reading /\ h_opening_tag_pattern(name) THEN TRUE ELSE h
    IN  IF ~reading /\ h_closing_tag_pattern(name) THEN FALSE ELSE h1

\* one iteration of "for char in text"
ScanChar ==
    /\ pc = "scan"
    /\ idx < Len(text)
    /\ LET char == text[idx + 1]
           br == Branch(char)
           process1 == br \in {"open", "boundary"}
           in_tag1 == IF br = "open" THEN TRUE ELSE IF br = "close" THEN FALSE ELSE in_tag
           reading1 == IF br = "open" THEN TRUE
                       ELSE IF br \in {"close", "space"} THEN FALSE
                       ELSE reading_tag_name
           tag_name1 == IF br = "open" THEN <<>>
                        ELSE IF br = "name" THEN tag_name \o <<char>>
                        ELSE tag_name
           word1 == IF br = "close" THEN <<>>
                    ELSE IF br = "alnum" THEN word \o <<char>>
                    ELSE word
           in_h1 == HTagAfter(reading1, tag_name1, in_h_tag)
           process == process1 /\ ~(ignore_h_tags /\ in_h1)
       IN  /\ in_tag' = in_tag1
           /\ reading_tag_name' = reading1
           /\ tag_name' = tag_name1
           /\ in_h_tag' = in_h1
           /\ IF process /\ word1 # <<>>
              THEN /\ \E new_word \in NewWords(word1) :
                        /\ result' = Splice(result, pos, word1, new_word, char)
                        /\ pos' = AdvancePos(pos, word1, new_word) + 1
                   /\ passed' = IF Eligible(word1) THEN passed \cup {Len(word1)} ELSE passed
                   /\ kept' = IF Eligible(word1) THEN kept ELSE kept \cup {Len(word1)}
                   /\ word' = <<>>
              ELSE /\ result' = result
                   /\ pos' = pos + 1
                   /\ word' = IF process THEN <<>> ELSE word1
                   /\ UNCHANGED <<passed, kept>>
    /\ idx' = idx + 1
    /\ UNCHANGED <<xhtml, language, ignore_h_tags, text, pc, returned, call, html_lang, runs>>

Installed == {"en_US"}

\* language.replace("-", "_")
Underscored(l) == IF l = "en-US" THEN "en_US" ELSE IF l = "zz-ZZ" THEN "zz_ZZ" ELSE l

Raise(e) ==
    /\ pc' = "raised"
    /\ returned' = e
    /\ UNCHANGED <<xhtml, language, ignore_h_tags, text, result, word, in_tag, tag_name,
                   reading_tag_name, in_h_tag, pos, idx, passed, kept, call, html_lang,
                   runs>>

\* hyphenate up to the loop: the language is resolved, the hyphenator is
\* built, the body is serialised
HyphenateStart ==
    /\ call = "hyphenate"
    /\ pc = "start"
    /\ LET lang == IF language = "None" THEN html_lang ELSE language
       IN  IF lang = "None" THEN Raise("InvalidLanguageException")
           ELSE IF Underscored(lang) \notin Installed THEN Raise("MissingDependencyException")
           ELSE /\ language' = Underscored(lang)
                /\ text' = BodyText(xhtml)
                /\ result' = BodyText(xhtml)
                /\ word' = <<>>
                /\ in_tag' = FALSE
                /\ tag_name' = <<>>
                /\ reading_tag_name' = FALSE
                /\ in_h_tag' = FALSE
                /\ pos' = 1
                /\ pc' = "scan"
                /\ UNCHANGED <<xhtml, ignore_h_tags, idx, returned, passed, kept, call,
                               html_lang, runs>>

\* hyphenate after the loop: the body is cut out of the document and the
\* result is put after </head>
HyphenateReturn ==
    /\ call = "hyphenate"
    /\ pc = "scan"
    /\ idx = Len(text)
    /\ returned' = InjectAfterHead(RemoveBody(xhtml), result)
    /\ pc' = "done"
    /\ UNCHANGED <<xhtml, language, ignore_h_tags, text, result, word, in_tag, tag_name,
                   reading_tag_name, in_h_tag, pos, idx, passed, kept, call, html_lang,
                   runs>>

-----------------------------------------------------------------------------
(* The calls of hyphenate the model makes *)

MaxPieces == 3

\* what the body is made of: a word, boundary characters, heading tags, a tag
\* with an attribute, and a comment (serialised as it was written) that holds
\* markup
Pieces ==
    { <<"a", "b">>,
      <<" ">>,
      <<".">>,
      <<"<", "h", "1", ">">>,
      <<"<", "/", "h", "1", ">">>,
      <<"<", "e", "m", " ", "c", ">">>,
      <<"<", "!", "-", "-", "<", "/", "h", "1", " ", "<", "-", "-", ">">> }

RECURSIVE PieceSeqs(_)
PieceSeqs(n) ==
    IF n = 0 THEN {<<>>}
    ELSE LET shorter == PieceSeqs(n - 1)
         IN  shorter \cup {<<p>> \o ps : p \in Pieces, ps \in {x \in shorter : Len(x) = n - 1}}

Inners == {Concat(ps) : ps \in PieceSeqs(MaxPieces)}

\* words at the length the scan stops asking the splitter
LongInners ==
    {Repeat("a", MaxWordLen - 1) \o <<" ">> \o Repeat("a", MaxWordLen) \o <<" ">>,
     Repeat("a", MaxWordLen + 1) \o <<".">>}

\* headings: one with an attribute and a nested inline element between two
\* paragraphs of text, three in a row, and one whose comment holds markup
HeadingInners ==
    LET ab == <<"a", "b">>
        em == <<"<", "e", "m", " ", "c", ">">>
        em_end == <<"<", "/", "e", "m", ">">>
        h1 == <<"<", "h", "1", ">">>
        h1_end == <<"<", "/", "h", "1", ">">>
        h6 == <<"<", "h", "6", ">">>
        h6_c == <<"<", "h", "6", " ", "c", ">">>
        h6_end == <<"<", "/", "h", "6", ">">>
        comment == <<"<", "!", "-", "-", "<", "/", "h", "1", " ", "<", "-", "-", ">">>
    IN  {Concat(<<ab, h6_c, ab, em, ab, em_end, <<" ">>, ab, <<".">>, h6_end, ab,
                  <<" ">>, ab, <<".">>>>),
         Concat(<<h1, ab, h1_end, h6, ab, <<" ">>, ab, h6_end, ab, h1, ab, h1_end>>),
         Concat(<<h1, comment, ab, h1_end, ab, <<" ">>>>)}

Body(inner) == BodyOpen \o <<">">> \o inner \o BodyClose

HyphenateCalls ==
    [xhtml : {HeadRegion \o Body(inner) :
                  inner \in Inners \cup LongInners \cup HeadingInners},
     language : {"en-US"}, html_lang : {"None"}, ignore_h_tags : BOOLEAN]
    \cup
    [xhtml : {Body(<<"a", "b", " ">>)},
     language : {"en-US"}, html_lang : {"None"}, ignore_h_tags : BOOLEAN]
    \cup
    [xhtml : {HeadRegion \o Body(<<"a", "b", " ">>)},
     language : {"None", "zz-ZZ"}, html_lang : {"None", "en-US"}, ignore_h_tags : {FALSE}]

InitHyphenate ==
    \E c \in HyphenateCalls :
        /\ call = "hyphenate"
        /\ xhtml = c.xhtml
        /\ language = c.language
        /\ html_lang = c.html_lang
        /\ ignore_h_tags = c.ignore_h_tags
        /\ text = <<>>
        /\ result = <<>>
        /\ word = <<>>
        /\ in_tag = FALSE
        /\ tag_name = <<>>
        /\ reading_tag_name = FALSE
        /\ in_h_tag = FALSE
        /\ pos = 1
        /\ idx = 0
        /\ pc = "start"
        /\ returned = <<>>
        /\ passed = {}
        /\ kept = {}
        /\ runs = 0

NextHyphenate == HyphenateStart \/ ScanChar \/ HyphenateReturn

SpecHyphenate == InitHyphenate /\ [][NextHyphenate]_vars

-----------------------------------------------------------------------------
(* convert_british_to_american *)

LDQ == "U+201C"         \* left double quotation mark
RDQ == "U+201D"         \* right double quotation mark
LSQ == "U+2018"         \* left single quotation mark
RSQ == "U+2019"         \* right single quotation mark, the apostrophe
WJ == "U+2060"          \* word joiner
THIN == "U+2009"        \* thin space
HAIR == "U+200A"        \* hair space
EMDASH == "U+2014"
ELLIPSIS == "U+2026"

T_ldq == <<"<", "l", "d", "q", ">">>
T_rdq == <<"<", "r", "d", "q", ">">>
T_lsq == <<"<", "l", "s", "q", ">">>
T_rsq == <<"<", "r", "s", "q", ">">>
T_ap == <<"<", "a", "p", ">">>
ClosingTag == <<"<", "/">>

\* \s
Whitespace == {" ", "\n", "\t", THIN, HAIR}
\* [a-z]
Lower == {"a", "b", "c", "d", "e", "f", "g", "h", "i", "j", "k", "l", "m", "n", "o",
          "p", "q", "r", "s", "t", "u", "v", "w", "x", "y", "z"}
\* [\.\,\!\?\...\:\;]
SentencePunctuation == {".", ",", "!", "?", ELLIPSIS, ":", ";"}

\* the length of the longest run of whitespace of s from position p on: (\s+)
RECURSIVE WsRun(_, _)
WsRun(s, p) ==
    IF p <= Len(s) /\ s[p] \in Whitespace THEN 1 + WsRun(s, p + 1) ELSE 0

\* Each pattern: the length of its match at position p (0: no match there),
\* and what replaces a match of n characters.

\* line 186: <rdq> WJ THIN RSQ (\s+)  ->  <rdq> THIN <rsq> \1
Match186(s, p) ==
    LET lead == T_rdq \o <<WJ, THIN, RSQ>>
    IN  IF OccursAt(s, lead, p) /\ WsRun(s, p + Len(lead)) > 0
        THEN Len(lead) + WsRun(s, p + Len(lead)) ELSE 0
Repl186(s, p, n) == T_rdq \o <<THIN>> \o T_rsq \o SubSeq(s, p + 8, p + n - 1)

\* line 188: ([\.\,\!\?\...\:\;]) RSQ  ->  \1 <rsq>
Match188(s, p) ==
    IF p + 1 <= Len(s) /\ s[p] \in SentencePunctuation /\ s[p + 1] = RSQ THEN 2 ELSE 0
Repl188(s, p, n) == <<s[p]>> \o T_rsq

\* line 189: EMDASH RSQ (\s+)  ->  EMDASH <rsq> \1
Match189(s, p) ==
    IF OccursAt(s, <<EMDASH, RSQ>>, p) /\ WsRun(s, p + 2) > 0
    THEN 2 + WsRun(s, p + 2) ELSE 0
Repl189(s, p, n) == <<EMDASH>> \o T_rsq \o SubSeq(s, p + 2, p + n - 1)

\* line 191: ([a-z]) RSQ ([a-z])  ->  \1 <ap> \2
Match191(s, p) ==
    IF p + 2 <= Len(s) /\ s[p] \in Lower /\ s[p + 1] = RSQ /\ s[p + 2] \in Lower
    THEN 3 ELSE 0
Repl191(s, p, n) == <<s[p]>> \o T_ap \o <<s[p + 2]>>

\* line 192: (\s+) RSQ ([a-z])  ->  \1 <ap> \2
Match192(s, p) ==
    LET w == WsRun(s, p)
    IN  IF w > 0 /\ p + w + 1 <= Len(s) /\ s[p + w] = RSQ /\ s[p + w + 1] \in Lower
        THEN w + 2 ELSE 0
Repl192(s, p, n) == SubSeq(s, p, p + n - 3) \o T_ap \o <<s[p + n - 1]>>

\* line 201: LDQ ([^ LSQ RDQ]+? [^s]) RSQ ([!\?:;\)\s])  ->  LDQ \1 RDQ \2
\* the apostrophes k the lazy group can stop at
After201 == {"!", "?", ":", ";", ")"} \cup Whitespace
Stops201(s, p) ==
    {k \in (p + 3)..(Len(s) - 1) :
        /\ \A j \in (p + 1)..(k - 2) : s[j] \notin {LSQ, RDQ}
        /\ s[k - 1] # "s"
        /\ s[k] = RSQ
        /\ s[k + 1] \in After201}
\* line 201 with . in the place of [^s]
Stops201AnyLetter(s, p) ==
    {k \in (p + 3)..(Len(s) - 1) :
        /\ \A j \in (p + 1)..(k - 2) : s[j] \notin {LSQ, RDQ}
        /\ s[k] = RSQ
        /\ s[k + 1] \in After201}
Match201AnyLetter(s, p) ==
    IF p <= Len(s) /\ s[p] = LDQ /\ Stops201AnyLetter(s, p) # {}
    THEN Min(Stops201AnyLetter(s, p)) - p + 2 ELSE 0

Match201(s, p) ==
    IF p <= Len(s) /\ s[p] = LDQ /\ Stops201(s, p) # {}
    THEN Min(Stops201(s, p)) - p + 2 ELSE 0
Repl201(s, p, n) == SubSeq(s, p, p + n - 3) \o <<RDQ, s[p + n - 1]>>

\* line 202: LDQ ([^ LSQ RDQ]+?) RSQ ([!\?:;\)])  ->  LDQ \1 RDQ \2
After202 == {"!", "?", ":", ";", ")"}
Stops202(s, p) ==
    {k \in (p + 2)..(Len(s) - 1) :
        /\ \A j \in (p + 1)..(k - 1) : s[j] \notin {LSQ, RDQ}
        /\ s[k] = RSQ
        /\ s[k + 1] \in After202}
Match202(s, p) ==
    IF p <= Len(s) /\ s[p] = LDQ /\ Stops202(s, p) # {}
    THEN Min(Stops202(s, p)) - p + 2 ELSE 0
Repl202(s, p, n) == SubSeq(s, p, p + n - 3) \o <<RDQ, s[p + n - 1]>>

MatchLen(line, s, p) ==
    CASE line = 186 -> Match186(s, p)
      [] line = 188 -> Match188(s, p)
      [] line = 189 -> Match189(s, p)
      [] line = 191 -> Match191(s, p)
      [] line = 192 -> Match192(s, p)
      [] line = 201 -> Match201(s, p)
      [] line = 202 -> Match202(s, p)

Replacement(line, s, p, n) ==
    CASE line = 186 -> Repl186(s, p, n)
      [] line = 188 -> Repl188(s, p, n)
      [] line = 189 -> Repl189(s, p, n)
      [] line = 191 -> Repl191(s, p, n)
      [] line = 192 -> Repl192(s, p, n)
      [] line = 201 -> Repl201(s, p, n)
      [] line = 202 -> Repl202(s, p, n)

\* regex.sub: the matches are taken left to right and do not overlap
RECURSIVE RegexSubFrom(_, _, _)
RegexSubFrom(line, s, p) ==
    IF p > Len(s) THEN <<>>
    ELSE LET n == MatchLen(line, s, p)
         IN  IF n > 0 THEN Replacement(line, s, p, n) \o RegexSubFrom(line, s, p + n)
             ELSE <<s[p]>> \o RegexSubFrom(line, s, p + 1)
RegexSub(line, s) == RegexSubFrom(line, s, 1)

\* lines 183-185: the quotation marks but the apostrophe become placeholders
ToPlaceholders(s) ==
    Replace(Replace(Replace(s, <<LDQ>>, T_ldq), <<RDQ>>, T_rdq), <<LSQ>>, T_lsq)

\* lines 186-187: a closing double quote and an apostrophe, nested closing quotes
NestedClosing(s) ==
    Replace(RegexSub(186, s),
            T_rdq \o <<WJ, THIN, RSQ>> \o ClosingTag,
            T_rdq \o <<THIN>> \o T_rsq \o ClosingTag)

\* lines 188-190: an apostrophe after punctuation or an em dash closes a quote
ClosingApostrophes(s) ==
    Replace(RegexSub(189, RegexSub(188, s)),
            <<EMDASH, RSQ>> \o ClosingTag,
            <<EMDASH>> \o T_rsq \o ClosingTag)

\* lines 191-192: an apostrophe before a lowercase letter is an apostrophe
Apostrophes(s) == RegexSub(192, RegexSub(191, s))

\* line 197 left out
ResolveApForgotten(s) == s

\* line 197
ResolveAp(s) == Replace(s, T_ap, <<RSQ>>)

\* lines 193-197: the placeholders become the American glyphs
FromPlaceholders(s) ==
    ResolveAp(Replace(Replace(Replace(Replace(s, T_ldq, <<LSQ>>), T_rdq, <<RSQ>>),
                              T_lsq, <<LDQ>>), T_rsq, <<RDQ>>))

\* lines 199-202: "Correct some common errors"
Corrections(s) ==
    RegexSub(202, RegexSub(201, Replace(s, <<RSQ, HAIR, RSQ>>, <<RSQ, HAIR, RDQ>>)))

convert_british_to_american(s) ==
    Corrections(FromPlaceholders(Apostrophes(ClosingApostrophes(NestedClosing(
        ToPlaceholders(s))))))

\* a call of a function that has no locals of hyphenate
InitCall(f, inputs) ==
    /\ call = f
    /\ xhtml \in inputs
    /\ pc = "start"
    /\ returned = <<>>
    /\ runs = 0
    /\ language = "None"
    /\ html_lang = "None"
    /\ ignore_h_tags = FALSE
    /\ text = <<>>
    /\ result = <<>>
    /\ word = <<>>
    /\ in_tag = FALSE
    /\ tag_name = <<>>
    /\ reading_tag_name = FALSE
    /\ in_h_tag = FALSE
    /\ pos = 1
    /\ idx = 0
    /\ passed = {}
    /\ kept = {}

MaxRuns == 2

Convert ==
    /\ call = "convert_british_to_american"
    /\ pc = "start"
    /\ returned' = convert_british_to_american(xhtml)
    /\ runs' = 1
    /\ pc' = "done"
    /\ UNCHANGED <<xhtml, call, scan_vars>>

\* the caller converts the text it got back
ConvertAgain ==
    /\ call = "convert_british_to_american"
    /\ pc = "done"
    /\ runs < MaxRuns
    /\ xhtml' = returned
    /\ returned' = convert_british_to_american(returned)
    /\ runs' = runs + 1
    /\ UNCHANGED <<pc, call, scan_vars>>

MaxConvertPieces == 3

Boys == <<"t", "h", "e", " ", "b", "o", "y", "s", RSQ, " ", "h", "a", "t", "s">>

Sample ==
    <<LDQ, "W", "e", "l", "l", ",", RDQ, " ", "s", "a", "i", "d", " ", "M", "r", "s", ".",
      " ", "B", "e", "n", "n", "e", "t", ",", " ", LSQ, "I", " ", "d", "e", "c", "l", "a",
      "r", "e", EMDASH, RSQ>>

ConvertPieces ==
    { <<LDQ>>, <<RDQ>>, <<LSQ>>, <<RSQ>>, <<" ">>, <<"a">>, <<".">>, <<"!">>, <<EMDASH>>,
      <<HAIR>>, <<WJ, THIN, RSQ>>, <<"i", "t", RSQ>>, <<"a", RSQ, "a">>, ClosingTag, T_ap,
      Boys }

RECURSIVE ConvertPieceSeqs(_)
ConvertPieceSeqs(n) ==
    IF n = 0 THEN {<<>>}
    ELSE LET shorter == ConvertPieceSeqs(n - 1)
         IN  shorter \cup {<<p>> \o ps : p \in ConvertPieces,
                                         ps \in {x \in shorter : Len(x) = n - 1}}

ConvertInputs == {Concat(ps) : ps \in ConvertPieceSeqs(MaxConvertPieces)} \cup {Sample}

InitConvert == InitCall("convert_british_to_american", ConvertInputs)

NextConvert == Convert \/ ConvertAgain

SpecConvert == InitConvert /\ [][NextConvert]_vars

-----------------------------------------------------------------------------
(* guess_quoting_style *)

threshold == 80

ParagraphTag == <<"<", "p", ">">>

\* the length of the run of tabs of s from position p on: \t*
RECURSIVE TabRun(_, _)
TabRun(s, p) == IF p <= Len(s) /\ s[p] = "\t" THEN 1 + TabRun(s, p + 1) ELSE 0

\* \t*<p>(.*?)quote matched at position p: where the group starts
GroupStart(s, p) == p + TabRun(s, p) + Len(ParagraphTag)

\* the positions of quote that end such a match: nothing between the tag and
\* the quote is a line break
QuoteEnds(s, p, quote) ==
    IF OccursAt(s, ParagraphTag, p + TabRun(s, p))
    THEN {q \in GroupStart(s, p)..Len(s) :
            /\ s[q] = quote
            /\ \A j \in GroupStart(s, p)..(q - 1) : s[j] # "\n"}
    ELSE {}

\* pattern.findall(xhtml) from position p on: the groups, left to right
RECURSIVE FindAll(_, _, _)
FindAll(s, p, quote) ==
    IF p > Len(s) THEN <<>>
    ELSE IF QuoteEnds(s, p, quote) = {} THEN FindAll(s, p + 1, quote)
    ELSE LET q == Min(QuoteEnds(s, p, quote))
         IN  <<SubSeq(s, GroupStart(s, p), q - 1)>> \o FindAll(s, q + 1, quote)

\* len([m for m in pattern.findall(xhtml) if m.count(other) == 0])
CountWithout(groups, other) ==
    Cardinality({k \in 1..Len(groups) : \A j \in 1..Len(groups[k]) : groups[k][j] # other})

lsq_count(s) == CountWithout(FindAll(s, 1, LSQ), LDQ)
ldq_count(s) == CountWithout(FindAll(s, 1, LDQ), LSQ)

\* american_percentage as a fraction <<numerator, denominator>>: 0 when the
\* division raises ZeroDivisionError
american_percentage(ldq, lsq) ==
    IF ldq + lsq = 0 THEN <<0, 1>> ELSE <<ldq * 100, ldq + lsq>>

\* > in the place of >=
IsAmericanAbove(pct) == pct[1] > threshold * pct[2]

\* american_percentage >= threshold
IsAmerican(pct) == pct[1] >= threshold * pct[2]

\* 100 - american_percentage >= threshold
IsBritish(pct) == 100 * pct[2] - pct[1] >= threshold * pct[2]

\* the if/elif on the percentage
DetectedStyle(ldq, lsq) ==
    LET pct == american_percentage(ldq, lsq)
    IN  IF IsAmerican(pct) THEN "american"
        ELSE IF IsBritish(pct) THEN "british"
        ELSE "unsure"

guess_quoting_style(s) == DetectedStyle(ldq_count(s), lsq_count(s))

Guess ==
    /\ call = "guess_quoting_style"
    /\ pc = "start"
    /\ returned' = guess_quoting_style(xhtml)
    /\ pc' = "done"
    /\ UNCHANGED <<xhtml, call, runs, scan_vars>>

MaxParagraphs == 5

Paragraph(inner) == ParagraphTag \o inner \o <<"<", "/", "p", ">", "\n">>

\* paragraphs that open with a double quote, with a single quote, with one
\* holding the other, and with no quote
Paragraphs ==
    { Paragraph(<<LDQ, "a">>),
      Paragraph(<<LSQ, "a">>),
      Paragraph(<<LDQ, "a", LSQ, "b">>),
      Paragraph(<<"a", LSQ, "b", LDQ>>),
      Paragraph(<<"a">>) }

RECURSIVE ParagraphSeqs(_)
ParagraphSeqs(n) ==
    IF n = 0 THEN {<<>>}
    ELSE LET shorter == ParagraphSeqs(n - 1)
         IN  shorter \cup {<<p>> \o ps : p \in Paragraphs,
                                         ps \in {x \in shorter : Len(x) = n - 1}}

GuessInputs == {Concat(ps) : ps \in ParagraphSeqs(MaxParagraphs)}

InitGuess == InitCall("guess_quoting_style", GuessInputs)

NextGuess == Guess

SpecGuess == InitGuess /\ [][NextGuess]_vars

-----------------------------------------------------------------------------
(* The properties *)

Scanning == call = "hyphenate" /\ pc \in {"scan", "done"}
Converted == call = "convert_british_to_american" /\ pc = "done"
Guessed == call = "guess_quoting_style" /\ pc = "done"

Chars(s) == {s[k] : k \in 1..Len(s)}

\* the sequence s without the characters equal to c
Strip(s, c) == SelectSeq(s, LAMBDA x : x # c)

\* C1: hyphenation preserves content. At every point of the scan the result
\* with its soft hyphens removed is the body text, and the cursor pos is at
\* the character the scan reads next.
C1_HyphenationPreservesContent ==
    Scanning =>
        /\ Strip(result, SHY) = text
        /\ idx < Len(text) => (pos <= Len(result) /\ result[pos] = text[idx + 1])

\* the alphanumeric characters of the run of alphanumeric characters and soft
\* hyphens of s that position p is in
WordAround(s, p) ==
    LET breaks == {q \in 1..Len(s) : ~IsAlnum(s[q]) /\ s[q] # SHY}
        lo == Max({0} \cup {q \in breaks : q < p})
        hi == Min({Len(s) + 1} \cup {q \in breaks : q > p})
    IN  {q \in (lo + 1)..(hi - 1) : IsAlnum(s[q])}

\* no soft hyphen of s is in a word of 100 alphanumeric characters or more
LongWordsWhole(s) ==
    \A p \in 1..Len(s) : s[p] = SHY => Cardinality(WordAround(s, p)) < 100

\* C8: word length safety. Every word handed to the syllable splitter is
\* shorter than 100 characters, every word finalized without the splitter has
\* 100 characters or more (a word of 99 is handed over), and no run of
\* alphanumeric characters of the result that holds a soft hyphen has 100
\* alphanumeric characters or more.
C8_WordLengthSafety ==
    Scanning =>
        /\ \A n \in passed : n < 100
        /\ \A n \in kept : n >= 100
        /\ LongWordsWhole(result)

\* C8: a call that finalizes a word of 99 characters, which is split, and a
\* word of 100, which is not
C8_Witness ==
    /\ call = "hyphenate" /\ pc = "done"
    /\ 99 \in passed /\ 100 \in kept
    /\ OccursAt(result, <<"a", SHY, "a">>, 7)
    /\ Cardinality({p \in 1..Len(result) : result[p] = SHY}) = 2

\* the document has the anchors hyphenate relies on: a body region and a
\* head-closing tag
HasAnchors(s) == HasBody(s) /\ Occurrences(s, HeadClose) # {}

\* C9: no partial result on malformed input. hyphenate returns a document
\* only when the document has its anchors (without them it fails with an
\* error), and what it returns holds the processed body.
C9_NoPartialResult ==
    (call = "hyphenate" /\ pc = "done") =>
        /\ HasAnchors(xhtml)
        /\ \E p \in 1..Len(returned) : OccursAt(returned, result, p)

\* '<' and '>' occur in s only as tag delimiters: each '<' opens a tag that
\* the next '>' closes
TagDelimitersOnly(s) ==
    LET delimiters == SelectSeq(s, LAMBDA x : x \in {"<", ">"})
    IN  /\ Len(delimiters) % 2 = 0
        /\ \A k \in 1..Len(delimiters) :
              delimiters[k] = (IF k % 2 = 1 THEN "<" ELSE ">")

\* position p of s lies between a '<' and its closing '>'
InsideTag(s, p) ==
    \E a \in 1..(p - 1) : s[a] = "<" /\ \A j \in (a + 1)..(p - 1) : s[j] # ">"

\* C10: markup is never touched. When '<' and '>' occur in the body text only
\* as tag delimiters, every soft hyphen of the result stands between two
\* alphanumeric characters outside any tag, and the result without its soft
\* hyphens is the body text, so every other character keeps its neighbours.
C10_MarkupUntouched ==
    (Scanning /\ TagDelimitersOnly(text)) =>
        /\ Strip(result, SHY) = text
        /\ \A p \in 1..Len(result) :
              result[p] = SHY =>
                  /\ p > 1 /\ p < Len(result)
                  /\ IsAlnum(result[p - 1]) /\ IsAlnum(result[p + 1])
                  /\ ~InsideTag(result, p)

\* C10: a finished scan of a body with a tag that has an attribute, in which
\* a word was split
C10_Witness ==
    /\ call = "hyphenate" /\ pc = "done"
    /\ TagDelimitersOnly(text)
    /\ Occurrences(text, <<"<", "e", "m", " ", "c", ">">>) # {}
    /\ SHY \in Chars(result)

\* an opening h1-h6 tag, with or without attributes, starts at position p of s
OpeningHTagAt(s, p) ==
    /\ p + 3 <= Len(s)
    /\ s[p] = "<" /\ s[p + 1] = "h" /\ s[p + 2] \in HDigits
    /\ s[p + 3] \in {">", " "}

\* a closing h1-h6 tag starts at position p of s
ClosingHTagAt(s, p) ==
    /\ p + 4 <= Len(s)
    /\ s[p] = "<" /\ s[p + 1] = "/" /\ s[p + 2] = "h" /\ s[p + 3] \in HDigits
    /\ s[p + 4] = ">"

\* position p of s is after the start of an opening heading tag and not after
\* the start of the next closing heading tag
InHeading(s, p) ==
    \E a \in 1..(p - 1) :
        /\ OpeningHTagAt(s, a)
        /\ \A c \in (a + 1)..(p - 1) : ~ClosingHTagAt(s, c)

\* the word of s that ends just before position p
WordBefore(s, p) ==
    LET breaks == {q \in 1..(p - 1) : ~IsAlnum(s[q])}
        lo == Max({0} \cup breaks)
    IN  SubSeq(s, lo + 1, p - 1)

\* the character the scan reads next ends a word outside any tag and outside
\* any heading
WordEndsOutsideHeading ==
    /\ idx < Len(text)
    /\ ~IsAlnum(text[idx + 1])
    /\ ~InsideTag(text, idx + 1)
    /\ ~InHeading(text, idx + 1)
    /\ WordBefore(text, idx + 1) # <<>>

\* the scan can replace the word before the character it reads next, where it
\* stands in the result, with any of the forms it may take when headings are
\* not ignored
SplitsWordBefore ==
    LET w == WordBefore(text, idx + 1)
    IN  /\ pos - Len(w) >= 1 /\ pos <= Len(result)
        /\ SubSeq(result, pos - Len(w), pos) = w \o <<text[idx + 1]>>
        /\ \A new_word \in NewWords(w) :
              ENABLED (ScanChar /\ result' = SubSeq(result, 1, pos - Len(w) - 1)
                                               \o new_word
                                               \o SubSeq(result, pos, Len(result)))

\* C11: heading exclusion. With ignore_h_tags true no soft hyphen of the
\* result is between an opening h1-h6 tag and the next closing h1-h6 tag, and
\* every word that ends outside the headings (the word before an opening
\* heading tag, the words after a closing one) is split where it stands, as
\* it is when headings are not ignored.
C11_HeadingExclusion ==
    (Scanning /\ ignore_h_tags) =>
        /\ \A p \in 1..Len(result) : result[p] = SHY => ~InHeading(result, p)
        /\ (pc = "scan" /\ WordEndsOutsideHeading) => SplitsWordBefore

Placeholders == {T_ldq, T_rdq, T_lsq, T_rsq, T_ap}

\* C2: conversion closure. What convert_british_to_american returns, for a
\* first conversion or for the conversion of its own output, holds none of the
\* placeholder tokens.
C2_NoPlaceholderLeft ==
    Converted => \A t \in Placeholders : Occurrences(returned, t) = {}

\* C2: the second conversion of a text in which an opening quote and an
\* apostrophe between two lowercase letters become placeholders
C2_Witness ==
    /\ Converted /\ runs = 2
    /\ OccursAt(xhtml, <<LDQ, "a", RSQ, "a">>, 1)

CurlyQuotes == {LDQ, RDQ, LSQ, RSQ}

\* C3: no glyph is lost. The output is as long as the input and every
\* character that is not a curly quotation glyph is where it was.
C3_NoGlyphLost ==
    Converted =>
        /\ Len(returned) = Len(xhtml)
        /\ \A p \in 1..Len(xhtml) :
              xhtml[p] \notin CurlyQuotes => (p <= Len(returned) /\ returned[p] = xhtml[p])

\* C4: the classifier threshold. With at least one qualifying capture the
\* style is American exactly when the double-first captures are 80% of the
\* captures or more, British exactly when they are 20% or less, and unsure
\* otherwise.
C4_ClassifierThreshold ==
    LET d == ldq_count(xhtml)
        n == ldq_count(xhtml) + lsq_count(xhtml)
    IN  (Guessed /\ n >= 1) =>
            /\ returned = "american" <=> 100 * d >= 80 * n
            /\ returned = "british" <=> 100 * d <= 20 * n
            /\ returned = "unsure" <=> (100 * d < 80 * n /\ 100 * d > 20 * n)

\* C4: four double-first captures and one single-first capture, exactly 80%
C4_Witness ==
    /\ Guessed
    /\ ldq_count(xhtml) = 4 /\ lsq_count(xhtml) = 1
    /\ returned = "american"

\* C5: a document with no qualifying capture of either kind is classified
\* unsure.
C5_NoCaptureUnsure ==
    (Guessed /\ ldq_count(xhtml) = 0 /\ lsq_count(xhtml) = 0) => returned = "unsure"

\* the American text the sample is said to become
SampleConverted ==
    <<LSQ, "W", "e", "l", "l", ",", RSQ, " ", "s", "a", "i", "d", " ", "M", "r", "s", ".",
      " ", "B", "e", "n", "n", "e", "t", ",", " ", LDQ, "I", " ", "d", "e", "c", "l", "a",
      "r", "e", EMDASH, RDQ>>

\* C6: the round-trip sample. The conversion of the sample text is the sample
\* with its quotes exchanged, the apostrophe at its end a closing double quote.
C6_RoundTripSample ==
    (Converted /\ xhtml = Sample) => returned = SampleConverted

BoysClosed == <<"t", "h", "e", " ", "b", "o", "y", "s", RDQ, " ", "h", "a", "t", "s">>

\* C7: possessive preservation. Each "the boys' hats" of the input is in the
\* output with its apostrophe, and none has a closing double quote in its
\* place.
C7_PossessivePreserved ==
    Converted =>
        /\ Cardinality(Occurrences(returned, Boys)) = Cardinality(Occurrences(xhtml, Boys))
        /\ Occurrences(returned, BoysClosed) = {}

\* C7: the conversion of a text that opens a single quote before "the boys'
\* hats", the opening quote the corrections look for in the output
C7_Witness ==
    /\ Converted /\ runs = 1
    /\ OccursAt(xhtml, <<LSQ>> \o Boys, 1)
    /\ OccursAt(returned, <<LDQ>> \o Boys, 1)

====
